---- MODULE Spec2Model ----
(***************************************************************************)
(* A model of pymessenger's Bot (src/pymessenger/bot.py): the construction *)
(* of a Bot, the lazily cached auth_args property, every public send /     *)
(* profile / user-info operation with the HTTP request it hands to the     *)
(* requests library, and concurrent readers of auth_args.                  *)
(*                                                                         *)
(* Python values are tagged records (field t names the Python type), so    *)
(* that a str, a dict, a list and None can meet in one collection.  A dict *)
(* is Dict(f) with f a function from its keys; dict.update is Merge.       *)
(* Numbers that Python holds as floats (API versions) are kept in tenths.  *)
(***************************************************************************)
EXTENDS Integers, Sequences, FiniteSets, TLC

VARIABLES
    self,        \* the Bot's attributes set by __init__
    auth_attr,   \* the attribute self._auth_args: NoAttr, or a reference to a dict
    heap,        \* the dict objects built by auth_args, one slot per thread
    pc,          \* per thread: its position inside the auth_args getter
    got,         \* per thread: the reference the getter returned
    call,        \* the operation the sequential caller invoked last, with its arguments
    trace,       \* what that invocation did, in order: file access, auth_args, request, decode
    result,      \* what that invocation gave the caller: a return value or a raised exception
    prev         \* the invocation the caller completed before this one, when it kept it

vars == <<self, auth_attr, heap, pc, got, call, trace, result, prev>>

---------------------------------------------------------------------------
(* Bounds of the model *)

NThreads == 2
MaxReplies == 2

Threads == 1..NThreads
MainThread == CHOOSE t \in Threads : \A u \in Threads : t <= u

---------------------------------------------------------------------------
(* Python values *)

None == [t |-> "None"]
Str(s) == [t |-> "str", v |-> s]
Num(n) == [t |-> "num", v |-> n]
Bool(b) == [t |-> "bool", v |-> b]
Dict(f) == [t |-> "dict", v |-> f]
List(s) == [t |-> "list", v |-> s]
Absent == [t |-> "absent"]

EmptyDict == Dict(<<>>)

Merge(a, b) ==
    [k \in (DOMAIN a) \cup (DOMAIN b) |-> IF k \in DOMAIN b THEN b[k] ELSE a[k]]

\* bool(x) for the values the Bot is given
Truthy(x) ==
    CASE x.t = "None" -> FALSE
      [] x.t = "num"  -> x.v # 0
      [] x.t = "list" -> x.v # <<>>
      [] x.t = "dict" -> DOMAIN x.v # {}
      [] x.t = "str"  -> x.v # ""
      [] OTHER        -> TRUE

HasGet(x) == x.t = "dict"

\* d.get(k) of a dict
DictGet(d, k) == IF k \in DOMAIN d.v THEN d.v[k] ELSE None

---------------------------------------------------------------------------
(* Module constants and enumerations *)

DEFAULT_API_VERSION == 160

NotificationType == {"regular", "silent_push", "no_push"}

NotificationTypeValue(nt) ==
    CASE nt = "regular"     -> Str("REGULAR")
      [] nt = "silent_push" -> Str("SILENT_PUSH")
      [] nt = "no_push"     -> Str("NO_PUSH")

TagType == {Str("CONFIRMED_EVENT_UPDATE"), Str("POST_PURCHASE_UPDATE"),
            Str("ACCOUNT_UPDATE"), Str("HUMAN_AGENT")}

TagTypeHumanAgent == Str("HUMAN_AGENT")

ModernApiVersion == 140

---------------------------------------------------------------------------
(* Bot.__init__ *)

ApiVersionArgs == {None, Num(0), Num(130), Num(140), Num(160)}
AppSecretArgs == {None, Str("s3cret")}
PageIdArgs == {Absent, Str("1001")}
AccessTokens == {Str("tokA"), Str("tokB")}

BotInit(access_token, api_version_arg, app_secret_arg, page_id_arg) ==
    LET api_version == IF Truthy(api_version_arg) THEN api_version_arg
                       ELSE Num(DEFAULT_API_VERSION)
    IN [ api_version     |-> api_version,
         num_api_version |-> api_version.v,
         app_secret      |-> app_secret_arg,
         page_id         |-> IF page_id_arg = Absent THEN Str("me") ELSE page_id_arg,
         graph_url       |-> [root |-> "https://graph.facebook.com/v", version |-> api_version],
         access_token    |-> access_token ]

---------------------------------------------------------------------------
(* utils.generate_appsecret_proof: the hex HMAC-SHA256 of the access token *)
(* keyed by the app secret.  The digest is kept symbolic: equal digests    *)
(* exactly for equal (key, message).                                       *)

generate_appsecret_proof(access_token, app_secret) ==
    [t |-> "hexdigest", alg |-> "hmac-sha256", key |-> app_secret, msg |-> access_token]

---------------------------------------------------------------------------
(* Bot.auth_args *)

NoAttr == [t |-> "unset"]
Ref(i) == [t |-> "ref", id |-> i]
Unallocated == [t |-> "unallocated"]

hasattr_auth_args == auth_attr # NoAttr

\* line 47-49: auth = {'access_token': self.access_token}
AuthNew == Dict([access_token |-> self.access_token])

\* line 50
NeedsProof == self.app_secret # None

\* line 51-52: auth['appsecret_proof'] = generate_appsecret_proof(...)
AuthSetProof(auth) ==
    Dict(Merge(auth.v,
               [appsecret_proof |->
                   generate_appsecret_proof(self.access_token, self.app_secret)]))

\* an auth_args that leaves the proof out
AuthBuiltWithoutProof == AuthNew

\* lines 47-52 run by one thread without interruption
AuthBuilt == IF NeedsProof THEN AuthSetProof(AuthNew) ELSE AuthNew

\* the value the property yields to a caller that runs it without interruption
auth_args == IF hasattr_auth_args THEN heap[auth_attr.id] ELSE AuthBuilt

---------------------------------------------------------------------------
(* What one invocation does and gives back *)

Return(v) == [kind |-> "return", value |-> v]
Raise(x) == [kind |-> "raise", exc |-> x]
Eff(tr, res) == [trace |-> tr, res |-> res]

OpenEv(path) == [e |-> "open", path |-> path]
ReadEv(path) == [e |-> "read", path |-> path]
CloseEv(path) == [e |-> "close", path |-> path]
AuthEv == [e |-> "auth_args"]
ReqEv(req) == [e |-> "request", req |-> req]
JsonEv == [e |-> "json"]

\* the keyword arguments of one requests.get / requests.post / requests.delete call
Request(method, url, params, json, data, headers) ==
    [method |-> method, url |-> url, params |-> params,
     json |-> json, data |-> data, headers |-> headers]

---------------------------------------------------------------------------
(* The transport and the platform: what a request comes back with *)

BodyOk == "{\"recipient_id\":\"123\",\"message_id\":\"mid.1\"}"
BodyError == "{\"error\":{\"message\":\"Invalid OAuth access token\",\"code\":190}}"
BodyHtml == "<html>502 Bad Gateway</html>"

Response(status_code, text) ==
    [kind |-> "response", status_code |-> status_code, text |-> text]

\* a transport failure, or a response: a status code with a JSON or a non-JSON body
Outcomes ==
    {[kind |-> "ConnectionError"],
     Response(200, BodyOk), Response(200, BodyHtml), Response(201, BodyOk),
     Response(400, BodyError), Response(500, BodyHtml)}

\* response.json(): the decoded body, or JSONDecodeError for a body that is no JSON
JsonValid(text) == text \in {BodyOk, BodyError}

JsonLoads(text) ==
    CASE text = BodyOk ->
            Dict([recipient_id |-> Str("123"), message_id |-> Str("mid.1")])
      [] text = BodyError ->
            Dict([error |-> Dict([message |-> Str("Invalid OAuth access token"),
                                  code |-> [t |-> "int", v |-> 190]])])

ResponseJson(tr, o) ==
    IF JsonValid(o.text)
    THEN Eff(tr \o <<JsonEv>>, Return(JsonLoads(o.text)))
    ELSE Eff(tr \o <<JsonEv>>, Raise("JSONDecodeError"))

\* requests.<method>(**req) after the events tr, then the result's .json()
RequestThenJson(tr, req, o) ==
    IF o.kind = "ConnectionError"
    THEN Eff(tr \o <<ReqEv(req)>>, Raise("ConnectionError"))
    ELSE ResponseJson(tr \o <<ReqEv(req)>>, o)

---------------------------------------------------------------------------
(* Endpoints: '{0}/{1}/messages'.format(self.graph_url, self.page_id), ... *)

MessagesEndpoint == [graph_url |-> self.graph_url, path |-> <<self.page_id, Str("messages")>>]
ProfileEndpoint == [graph_url |-> self.graph_url, path |-> <<self.page_id, Str("messenger_profile")>>]
UserEndpoint(recipient_id) == [graph_url |-> self.graph_url, path |-> <<recipient_id>>]

---------------------------------------------------------------------------
(* The send operations *)


\* a send_raw that posts a second time when the transport fails
send_raw_retrying(payload, o) ==
    LET req == Request("POST", MessagesEndpoint, auth_args, payload, Absent, Absent)
    IN IF o.kind = "ConnectionError"
       THEN Eff(<<AuthEv, ReqEv(req), ReqEv(req)>>, Raise("ConnectionError"))
       ELSE ResponseJson(<<AuthEv, ReqEv(req)>>, o)

send_raw(payload, o) ==
    RequestThenJson(<<AuthEv>>,
                    Request("POST", MessagesEndpoint, auth_args, payload, Absent, Absent),
                    o)

_send_payload(payload, o) == send_raw(payload, o)


\* a send_recipient that builds a fresh body instead of adding to the caller's payload
send_recipient_fresh_body(recipient_id, payload, notification_type, o) ==
    send_raw(Dict([recipient |-> Dict([id |-> recipient_id]),
                   notification_type |-> NotificationTypeValue(notification_type)]),
             o)

send_recipient(recipient_id, payload, notification_type, o) ==
    LET p1 == Merge(payload.v, [recipient |-> Dict([id |-> recipient_id])])
        p2 == Merge(p1, [notification_type |-> NotificationTypeValue(notification_type)])
    IN send_raw(Dict(p2), o)


\* a send_message_api16plus that passes the notification type on as a parameter
send_message_api16plus_notifying(recipient_id, message, notification_type, o) ==
    IF ~HasGet(recipient_id)
    THEN Eff(<<>>, Raise("AttributeError"))
    ELSE LET rid == DictGet(recipient_id, "id")
             params == [recipient |-> rid,
                        messaging_type |-> Str("RESPONSE"),
                        message |-> message,
                        notification_type |-> NotificationTypeValue(notification_type)]
         IN RequestThenJson(<<AuthEv>>,
                            Request("POST", MessagesEndpoint,
                                    Dict(Merge(params, auth_args.v)),
                                    Absent, Absent, Absent),
                            o)

\* a send_message_api16plus whose id extraction gives None for a value that is no mapping
send_message_api16plus_lenient(recipient_id, message, notification_type, o) ==
    LET rid == IF HasGet(recipient_id) THEN DictGet(recipient_id, "id") ELSE None
        params == [recipient |-> rid,
                   messaging_type |-> Str("RESPONSE"),
                   message |-> message]
    IN RequestThenJson(<<AuthEv>>,
                       Request("POST", MessagesEndpoint,
                               Dict(Merge(params, auth_args.v)),
                               Absent, Absent, Absent),
                       o)

send_message_api16plus(recipient_id, message, notification_type, o) ==
    IF ~HasGet(recipient_id)
    THEN Eff(<<>>, Raise("AttributeError"))
    ELSE LET rid == DictGet(recipient_id, "id")
             params == [recipient |-> rid,
                        messaging_type |-> Str("RESPONSE"),
                        message |-> message]
         IN RequestThenJson(<<AuthEv>>,
                            Request("POST", MessagesEndpoint,
                                    Dict(Merge(params, auth_args.v)),
                                    Absent, Absent, Absent),
                            o)

send_message(recipient_id, message, notification_type, o) ==
    IF self.num_api_version >= ModernApiVersion
    THEN send_message_api16plus(recipient_id, message, notification_type, o)
    ELSE send_recipient(recipient_id, Dict([message |-> message]), notification_type, o)


\* a send_tag_message routed through send_message, hence through the version branch
send_tag_message_branching(recipient_id, message, tag, notification_type, o) ==
    send_message(recipient_id, message, notification_type, o)

send_tag_message(recipient_id, message, tag, notification_type, o) ==
    send_recipient(recipient_id,
                   Dict([message |-> message,
                         messaging_type |-> Str("MESSAGE_TAG"),
                         tag |-> tag]),
                   notification_type, o)

send_attachment_url(recipient_id, attachment_type, attachment_url, notification_type, o) ==
    send_message(recipient_id,
                 Dict([attachment |->
                        Dict([type |-> attachment_type,
                              payload |-> Dict([url |-> attachment_url])])]),
                 notification_type, o)

send_text_message(recipient_id, message, notification_type, o) ==
    send_message(recipient_id, Dict([text |-> message]), notification_type, o)

send_generic_message(recipient_id, elements, notification_type, o) ==
    send_message(recipient_id,
                 Dict([attachment |->
                        Dict([type |-> Str("template"),
                              payload |-> Dict([template_type |-> Str("generic"),
                                                elements |-> elements])])]),
                 notification_type, o)

send_button_message(recipient_id, text, buttons, notification_type, o) ==
    send_message(recipient_id,
                 Dict([attachment |->
                        Dict([type |-> Str("template"),
                              payload |-> Dict([template_type |-> Str("button"),
                                                text |-> text,
                                                buttons |-> buttons])])]),
                 notification_type, o)

send_action(recipient_id, action, notification_type, o) ==
    send_recipient(recipient_id, Dict([sender_action |-> action]), notification_type, o)

send_image_url(recipient_id, image_url, notification_type, o) ==
    send_attachment_url(recipient_id, Str("image"), image_url, notification_type, o)

send_audio_url(recipient_id, audio_url, notification_type, o) ==
    send_attachment_url(recipient_id, Str("audio"), audio_url, notification_type, o)

send_video_url(recipient_id, video_url, notification_type, o) ==
    send_attachment_url(recipient_id, Str("video"), video_url, notification_type, o)

send_file_url(recipient_id, file_url, notification_type, o) ==
    send_attachment_url(recipient_id, Str("file"), file_url, notification_type, o)

---------------------------------------------------------------------------
(* Bot.send_quick_replies_message *)

Min(a, b) == IF a <= b THEN a ELSE b

QuickReply(title, payload) ==
    Dict([content_type |-> Str("text"), title |-> title, payload |-> payload])

\* lines 237-261: the list the two loops build
quick_replies_list(quick_replies, list_of_payloads) ==
    IF ~Truthy(list_of_payloads)
    THEN [i \in 1..Len(quick_replies.v) |->
             QuickReply(quick_replies.v[i], quick_replies.v[i])]
    ELSE \* zip stops at the shorter of the two lists
         [i \in 1..Min(Len(quick_replies.v), Len(list_of_payloads.v)) |->
             IF list_of_payloads.v[i] = None
             THEN QuickReply(quick_replies.v[i], quick_replies.v[i])
             ELSE QuickReply(quick_replies.v[i], list_of_payloads.v[i])]

send_quick_replies_message(recipient_id, text, quick_replies, list_of_payloads, o) ==
    send_message(recipient_id,
                 Dict([text |-> text,
                       quick_replies |->
                           List(quick_replies_list(quick_replies, list_of_payloads))]),
                 "regular", o)

---------------------------------------------------------------------------
(* Bot.send_attachment and the local files it reads *)

\* A path is its directory names and the '.'-separated pieces of its last
\* component; directory names hold no '.'.
Path(dir, file) == [dir |-> dir, file |-> file]

PathCat == Path(<<"tmp">>, <<"cat", "png">>)
PathReadme == Path(<<"tmp">>, <<"README">>)
PathMissing == Path(<<"tmp">>, <<"missing", "mp3">>)

AttachmentPaths == {PathCat, PathReadme, PathMissing}

\* the files open(path, 'rb') can open, with their bytes
Files == (PathCat :> "\\x89PNG...") @@ (PathReadme :> "hello")

\* attachment_path.split('.')[-1]
SplitLast(path) ==
    IF Len(path.file) > 1
    THEN [t |-> "str", v |-> path.file[Len(path.file)]]
    ELSE [t |-> "pathstr", path |-> path]

\* os.path.basename(attachment_path)
Basename(path) == [t |-> "dotted", pieces |-> path.file]

\* json.dumps(x): the JSON text of x
JsonDumps(x) == [t |-> "jsontext", of |-> x]

\* MultipartEncoder(fields) and its content_type
MultipartEncoder(fields) == [t |-> "multipart", fields |-> fields]
MultipartContentType(m) == [t |-> "content_type", of |-> "multipart/form-data", fields |-> m.fields]


\* a send_attachment that opens the file only while the request is being sent
send_attachment_streaming(recipient_id, attachment_type, attachment_path, notification_type, is_reusable, o) ==
    LET req == Request("POST", MessagesEndpoint, auth_args, Absent,
                       MultipartEncoder(Dict([recipient |-> JsonDumps(Dict([id |-> recipient_id]))])),
                       Absent)
    IN IF attachment_path \notin DOMAIN Files
       THEN Eff(<<AuthEv, ReqEv(req), OpenEv(attachment_path)>>, Raise("FileNotFoundError"))
       ELSE RequestThenJson(<<AuthEv, OpenEv(attachment_path), ReadEv(attachment_path),
                              CloseEv(attachment_path)>>, req, o)

send_attachment(recipient_id, attachment_type, attachment_path, notification_type, is_reusable, o) ==
    LET file_type == [t |-> "fstr", type |-> attachment_type, ext |-> SplitLast(attachment_path)]
    IN IF attachment_path \notin DOMAIN Files
       THEN Eff(<<OpenEv(attachment_path)>>, Raise("FileNotFoundError"))
       ELSE LET file_data == Files[attachment_path]
                payload ==
                    Dict([recipient |-> JsonDumps(Dict([id |-> recipient_id])),
                          notification_type |-> NotificationTypeValue(notification_type),
                          message |->
                              JsonDumps(Dict([attachment |->
                                  Dict([type |-> attachment_type,
                                        payload |-> Dict([is_reusable |-> is_reusable])])])),
                          filedata |->
                              [t |-> "tuple",
                               v |-> <<Basename(attachment_path),
                                       [t |-> "bytes", v |-> file_data],
                                       file_type>>]])
                multipart_data == MultipartEncoder(payload)
                multipart_header ==
                    Dict("Content-Type" :> MultipartContentType(multipart_data))
            IN RequestThenJson(<<OpenEv(attachment_path), ReadEv(attachment_path),
                                 CloseEv(attachment_path), AuthEv>>,
                               Request("POST", MessagesEndpoint, auth_args,
                                       Absent, multipart_data, multipart_header),
                               o)

send_image(recipient_id, image_path, notification_type, is_reusable, o) ==
    send_attachment(recipient_id, Str("image"), image_path, notification_type, is_reusable, o)

send_audio(recipient_id, audio_path, notification_type, o) ==
    send_attachment(recipient_id, Str("audio"), audio_path, notification_type, Bool(TRUE), o)

send_video(recipient_id, video_path, notification_type, o) ==
    send_attachment(recipient_id, Str("video"), video_path, notification_type, Bool(TRUE), o)

send_file(recipient_id, file_path, notification_type, o) ==
    send_attachment(recipient_id, Str("file"), file_path, notification_type, Bool(TRUE), o)

---------------------------------------------------------------------------
(* Bot.get_user_info and the messenger-profile operations *)

\* ",".join(fields)
JoinComma(seq) == [t |-> "joined", sep |-> ",", parts |-> seq]


\* a get_user_info that takes every 2xx status for success
get_user_info_any_2xx(recipient_id, fields, o) ==
    LET params0 == IF fields # None /\ fields.t \in {"list", "tuple"}
                   THEN [fields |-> JoinComma(fields.v)]
                   ELSE <<>>
        req == Request("GET", UserEndpoint(recipient_id),
                       Dict(Merge(params0, auth_args.v)), Absent, Absent, Absent)
    IN IF o.kind = "ConnectionError"
       THEN Eff(<<AuthEv, ReqEv(req)>>, Raise("ConnectionError"))
       ELSE IF o.status_code >= 200 /\ o.status_code < 300
            THEN ResponseJson(<<AuthEv, ReqEv(req)>>, o)
            ELSE Eff(<<AuthEv, ReqEv(req)>>, Return(None))

get_user_info(recipient_id, fields, o) ==
    LET params0 == IF fields # None /\ fields.t \in {"list", "tuple"}
                   THEN [fields |-> JoinComma(fields.v)]
                   ELSE <<>>
        req == Request("GET", UserEndpoint(recipient_id),
                       Dict(Merge(params0, auth_args.v)), Absent, Absent, Absent)
    IN IF o.kind = "ConnectionError"
       THEN Eff(<<AuthEv, ReqEv(req)>>, Raise("ConnectionError"))
       ELSE IF o.status_code = 200
            THEN ResponseJson(<<AuthEv, ReqEv(req)>>, o)
            ELSE Eff(<<AuthEv, ReqEv(req)>>, Return(None))

set_get_started(gs_obj, o) ==
    RequestThenJson(<<AuthEv>>,
                    Request("POST", ProfileEndpoint, auth_args, gs_obj, Absent, Absent),
                    o)

set_persistent_menu(pm_obj, o) ==
    RequestThenJson(<<AuthEv>>,
                    Request("POST", ProfileEndpoint, auth_args, pm_obj, Absent, Absent),
                    o)

remove_get_started(o) ==
    LET delete_obj == Dict([fields |-> List(<<Str("get_started")>>)])
    IN RequestThenJson(<<AuthEv>>,
                       Request("DELETE", ProfileEndpoint, auth_args, delete_obj, Absent, Absent),
                       o)

remove_persistent_menu(o) ==
    LET delete_obj == Dict([fields |-> List(<<Str("persistent_menu")>>)])
    IN RequestThenJson(<<AuthEv>>,
                       Request("DELETE", ProfileEndpoint, auth_args, delete_obj, Absent, Absent),
                       o)

---------------------------------------------------------------------------
(* The arguments callers pass *)

SeqsUpTo(S, n) == UNION {[1..k -> S] : k \in 0..n}

Recipients == {Str("123"), Dict([id |-> Str("123")]), Dict([name |-> Str("bob")])}
SomeRecipients == {Str("123"), Dict([id |-> Str("123")])}
SomeNotificationTypes == {"regular", "no_push"}
SomeTags == {Str("HUMAN_AGENT"), Str("ACCOUNT_UPDATE")}
SomeAttachmentTypes == {Str("image"), Str("file")}

Messages == {Dict([text |-> Str("hi")]),
             Dict([text |-> Str("bye"), metadata |-> Str("m1")])}

Payloads == {EmptyDict,
             Dict([sender_action |-> Str("typing_on")]),
             Dict([message |-> Dict([text |-> Str("hi")]),
                   recipient |-> Dict([id |-> Str("old")]),
                   notification_type |-> Str("NO_PUSH")])}

Texts == {Str("hi")}
Urls == {Str("https://example.com/a.png")}
Actions == {Str("mark_seen"), Str("typing_on")}
Elements == {List(<<Dict([title |-> Str("t1")])>>)}
Buttons == {List(<<Dict([type |-> Str("postback"), title |-> Str("b1"), payload |-> Str("p1")])>>)}
FieldsArgs == {None, Str("first_name"), List(<<>>), List(<<Str("first_name"), Str("last_name")>>)}
ProfileObjects == {Dict([get_started |-> Dict([payload |-> Str("GO")])])}

ReplyTitles == {Str("Yes"), Str("No")}
ReplyLists == {List(q) : q \in SeqsUpTo(ReplyTitles, MaxReplies)}
PayloadItems == {None, Str("Y")}
PayloadLists == {None} \cup {List(q) : q \in SeqsUpTo(PayloadItems, MaxReplies)}

---------------------------------------------------------------------------
(* The sequential caller: one invocation at a time *)

Idle == [op |-> "idle"]
NoResult == [kind |-> "none"]
NoPrev == [call |-> Idle, trace |-> <<>>, result |-> NoResult]

Init ==
    /\ \E tok \in AccessTokens, av \in ApiVersionArgs,
          sec \in AppSecretArgs, pid \in PageIdArgs :
            self = BotInit(tok, av, sec, pid)
    /\ auth_attr = NoAttr
    /\ heap = [t \in Threads |-> Unallocated]
    /\ pc = [t \in Threads |-> "idle"]
    /\ got = [t \in Threads |-> NoAttr]
    /\ call = Idle
    /\ trace = <<>>
    /\ result = NoResult
    /\ prev = NoPrev

AuthRead(tr) == \E i \in DOMAIN tr : tr[i].e = "auth_args"

\* One whole invocation c with what it did (eff); reading auth_args fills the cache
\* (lines 46-53) when the attribute is not set yet.
Do(c, eff) ==
    /\ call' = c
    /\ trace' = eff.trace
    /\ result' = eff.res
    /\ IF AuthRead(eff.trace) /\ ~hasattr_auth_args
       THEN /\ heap' = [heap EXCEPT ![MainThread] = AuthBuilt]
            /\ auth_attr' = Ref(MainThread)
       ELSE UNCHANGED <<heap, auth_attr>>
    /\ UNCHANGED <<self, pc, got, prev>>

\* the caller takes the result; the invocation's payload and response are discarded
CallerReturns ==
    /\ call # Idle
    /\ call' = Idle
    /\ trace' = <<>>
    /\ result' = NoResult
    /\ UNCHANGED <<self, auth_attr, heap, pc, got, prev>>

SendRaw ==
    /\ call = Idle
    /\ \E p \in Payloads, o \in Outcomes :
        Do([op |-> "send_raw", payload |-> p, o |-> o], send_raw(p, o))

SendPayloadDeprecated ==
    /\ call = Idle
    /\ \E p \in Payloads, o \in Outcomes :
        Do([op |-> "_send_payload", payload |-> p, o |-> o], _send_payload(p, o))

SendRecipient ==
    /\ call = Idle
    /\ \E r \in Recipients, p \in Payloads, nt \in NotificationType, o \in Outcomes :
        Do([op |-> "send_recipient", recipient_id |-> r, payload |-> p,
            notification_type |-> nt, o |-> o],
           send_recipient(r, p, nt, o))

SendMessage ==
    /\ call = Idle
    /\ \E r \in Recipients, m \in Messages, nt \in NotificationType, o \in Outcomes :
        Do([op |-> "send_message", recipient_id |-> r, message |-> m,
            notification_type |-> nt, o |-> o],
           send_message(r, m, nt, o))

SendMessageApi16plus ==
    /\ call = Idle
    /\ \E r \in Recipients, m \in Messages, nt \in NotificationType, o \in Outcomes :
        Do([op |-> "send_message_api16plus", recipient_id |-> r, message |-> m,
            notification_type |-> nt, o |-> o],
           send_message_api16plus(r, m, nt, o))

SendTagMessage ==
    /\ call = Idle
    /\ \E r \in SomeRecipients, m \in Messages, tag \in SomeTags, nt \in SomeNotificationTypes,
       o \in Outcomes :
        Do([op |-> "send_tag_message", recipient_id |-> r, message |-> m, tag |-> tag,
            notification_type |-> nt, o |-> o],
           send_tag_message(r, m, tag, nt, o))

SendAttachment ==
    /\ call = Idle
    /\ \E r \in SomeRecipients, ty \in SomeAttachmentTypes, path \in AttachmentPaths,
       nt \in SomeNotificationTypes, reuse \in {Bool(TRUE), Bool(FALSE)}, o \in Outcomes :
        Do([op |-> "send_attachment", recipient_id |-> r, attachment_type |-> ty,
            attachment_path |-> path, notification_type |-> nt,
            is_reusable |-> reuse, o |-> o],
           send_attachment(r, ty, path, nt, reuse, o))

SendAttachmentUrl ==
    /\ call = Idle
    /\ \E r \in Recipients, ty \in SomeAttachmentTypes, url \in Urls,
       nt \in SomeNotificationTypes, o \in Outcomes :
        Do([op |-> "send_attachment_url", recipient_id |-> r, attachment_type |-> ty,
            attachment_url |-> url, notification_type |-> nt, o |-> o],
           send_attachment_url(r, ty, url, nt, o))

SendTextMessage ==
    /\ call = Idle
    /\ \E r \in Recipients, m \in Texts, nt \in SomeNotificationTypes, o \in Outcomes :
        Do([op |-> "send_text_message", recipient_id |-> r, message |-> m,
            notification_type |-> nt, o |-> o],
           send_text_message(r, m, nt, o))

SendGenericMessage ==
    /\ call = Idle
    /\ \E r \in Recipients, els \in Elements, nt \in SomeNotificationTypes, o \in Outcomes :
        Do([op |-> "send_generic_message", recipient_id |-> r, elements |-> els,
            notification_type |-> nt, o |-> o],
           send_generic_message(r, els, nt, o))

SendButtonMessage ==
    /\ call = Idle
    /\ \E r \in Recipients, tx \in Texts, bs \in Buttons, nt \in SomeNotificationTypes,
       o \in Outcomes :
        Do([op |-> "send_button_message", recipient_id |-> r, text |-> tx,
            buttons |-> bs, notification_type |-> nt, o |-> o],
           send_button_message(r, tx, bs, nt, o))

SendQuickRepliesMessage ==
    /\ call = Idle
    /\ \E r \in SomeRecipients, tx \in Texts, qs \in ReplyLists, ps \in PayloadLists,
       o \in Outcomes :
        Do([op |-> "send_quick_replies_message", recipient_id |-> r, text |-> tx,
            quick_replies |-> qs, list_of_payloads |-> ps, o |-> o],
           send_quick_replies_message(r, tx, qs, ps, o))

SendAction ==
    /\ call = Idle
    /\ \E r \in Recipients, a \in Actions, nt \in SomeNotificationTypes, o \in Outcomes :
        Do([op |-> "send_action", recipient_id |-> r, action |-> a,
            notification_type |-> nt, o |-> o],
           send_action(r, a, nt, o))

SendImage ==
    /\ call = Idle
    /\ \E r \in SomeRecipients, path \in AttachmentPaths, nt \in SomeNotificationTypes,
       reuse \in {Bool(TRUE), Bool(FALSE)}, o \in Outcomes :
        Do([op |-> "send_image", recipient_id |-> r, attachment_path |-> path,
            notification_type |-> nt, is_reusable |-> reuse, o |-> o],
           send_image(r, path, nt, reuse, o))

SendAudio ==
    /\ call = Idle
    /\ \E r \in SomeRecipients, path \in AttachmentPaths, nt \in SomeNotificationTypes, o \in Outcomes :
        Do([op |-> "send_audio", recipient_id |-> r, attachment_path |-> path,
            notification_type |-> nt, o |-> o],
           send_audio(r, path, nt, o))

SendVideo ==
    /\ call = Idle
    /\ \E r \in SomeRecipients, path \in AttachmentPaths, nt \in SomeNotificationTypes, o \in Outcomes :
        Do([op |-> "send_video", recipient_id |-> r, attachment_path |-> path,
            notification_type |-> nt, o |-> o],
           send_video(r, path, nt, o))

SendFile ==
    /\ call = Idle
    /\ \E r \in SomeRecipients, path \in AttachmentPaths, nt \in SomeNotificationTypes, o \in Outcomes :
        Do([op |-> "send_file", recipient_id |-> r, attachment_path |-> path,
            notification_type |-> nt, o |-> o],
           send_file(r, path, nt, o))

SendImageUrl ==
    /\ call = Idle
    /\ \E r \in SomeRecipients, url \in Urls, nt \in SomeNotificationTypes, o \in Outcomes :
        Do([op |-> "send_image_url", recipient_id |-> r, attachment_url |-> url,
            notification_type |-> nt, o |-> o],
           send_image_url(r, url, nt, o))

SendAudioUrl ==
    /\ call = Idle
    /\ \E r \in SomeRecipients, url \in Urls, nt \in SomeNotificationTypes, o \in Outcomes :
        Do([op |-> "send_audio_url", recipient_id |-> r, attachment_url |-> url,
            notification_type |-> nt, o |-> o],
           send_audio_url(r, url, nt, o))

SendVideoUrl ==
    /\ call = Idle
    /\ \E r \in SomeRecipients, url \in Urls, nt \in SomeNotificationTypes, o \in Outcomes :
        Do([op |-> "send_video_url", recipient_id |-> r, attachment_url |-> url,
            notification_type |-> nt, o |-> o],
           send_video_url(r, url, nt, o))

SendFileUrl ==
    /\ call = Idle
    /\ \E r \in SomeRecipients, url \in Urls, nt \in SomeNotificationTypes, o \in Outcomes :
        Do([op |-> "send_file_url", recipient_id |-> r, attachment_url |-> url,
            notification_type |-> nt, o |-> o],
           send_file_url(r, url, nt, o))

GetUserInfo ==
    /\ call = Idle
    /\ \E r \in SomeRecipients, f \in FieldsArgs, o \in Outcomes :
        Do([op |-> "get_user_info", recipient_id |-> r, fields |-> f, o |-> o],
           get_user_info(r, f, o))

SetGetStarted ==
    /\ call = Idle
    /\ \E g \in ProfileObjects, o \in Outcomes :
        Do([op |-> "set_get_started", obj |-> g, o |-> o], set_get_started(g, o))

SetPersistentMenu ==
    /\ call = Idle
    /\ \E g \in ProfileObjects, o \in Outcomes :
        Do([op |-> "set_persistent_menu", obj |-> g, o |-> o], set_persistent_menu(g, o))

RemoveGetStarted ==
    /\ call = Idle
    /\ \E o \in Outcomes :
        Do([op |-> "remove_get_started", o |-> o], remove_get_started(o))

RemovePersistentMenu ==
    /\ call = Idle
    /\ \E o \in Outcomes :
        Do([op |-> "remove_persistent_menu", o |-> o], remove_persistent_menu(o))

Next ==
    \/ SendRaw
    \/ SendPayloadDeprecated
    \/ SendRecipient
    \/ SendMessage
    \/ SendMessageApi16plus
    \/ SendTagMessage
    \/ SendAttachment
    \/ SendAttachmentUrl
    \/ SendTextMessage
    \/ SendGenericMessage
    \/ SendButtonMessage
    \/ SendQuickRepliesMessage
    \/ SendAction
    \/ SendImage
    \/ SendAudio
    \/ SendVideo
    \/ SendFile
    \/ SendImageUrl
    \/ SendAudioUrl
    \/ SendVideoUrl
    \/ SendFileUrl
    \/ GetUserInfo
    \/ SetGetStarted
    \/ SetPersistentMenu
    \/ RemoveGetStarted
    \/ RemovePersistentMenu
    \/ CallerReturns

Spec == Init /\ [][Next]_vars

---------------------------------------------------------------------------
(* Concurrent readers of auth_args on one shared Bot: each thread runs the *)
(* getter (lines 46-54) one statement at a time.  A thread's local `auth`  *)
(* is the dict in its own heap slot.                                       *)

\* a caller reads bot.auth_args
AuthCall(t) ==
    /\ pc[t] \in {"idle", "done"}
    /\ pc' = [pc EXCEPT ![t] = "L46"]
    /\ UNCHANGED <<self, auth_attr, heap, got, call, trace, result, prev>>

\* line 46: if not hasattr(self, '_auth_args')
AuthCheck(t) ==
    /\ pc[t] = "L46"
    /\ pc' = [pc EXCEPT ![t] = IF hasattr_auth_args THEN "L54" ELSE "L47"]
    /\ UNCHANGED <<self, auth_attr, heap, got, call, trace, result, prev>>

\* an AuthCreate that stores the new dict in the attribute before it is complete
AuthCreatePublishing(t) ==
    /\ pc[t] = "L47"
    /\ heap' = [heap EXCEPT ![t] = AuthNew]
    /\ auth_attr' = Ref(t)
    /\ pc' = [pc EXCEPT ![t] = "L50"]
    /\ UNCHANGED <<self, got, call, trace, result, prev>>

\* lines 47-49: auth = {'access_token': self.access_token}
AuthCreate(t) ==
    /\ pc[t] = "L47"
    /\ heap' = [heap EXCEPT ![t] = AuthNew]
    /\ pc' = [pc EXCEPT ![t] = "L50"]
    /\ UNCHANGED <<self, auth_attr, got, call, trace, result, prev>>

\* line 50: if self.app_secret is not None
AuthTestSecret(t) ==
    /\ pc[t] = "L50"
    /\ pc' = [pc EXCEPT ![t] = IF NeedsProof THEN "L51" ELSE "L53"]
    /\ UNCHANGED <<self, auth_attr, heap, got, call, trace, result, prev>>

\* lines 51-52: auth['appsecret_proof'] = generate_appsecret_proof(...)
AuthAddProof(t) ==
    /\ pc[t] = "L51"
    /\ heap' = [heap EXCEPT ![t] = AuthSetProof(heap[t])]
    /\ pc' = [pc EXCEPT ![t] = "L53"]
    /\ UNCHANGED <<self, auth_attr, got, call, trace, result, prev>>

\* line 53: self._auth_args = auth
AuthStore(t) ==
    /\ pc[t] = "L53"
    /\ auth_attr' = Ref(t)
    /\ pc' = [pc EXCEPT ![t] = "L54"]
    /\ UNCHANGED <<self, heap, got, call, trace, result, prev>>

\* line 54: return self._auth_args
AuthReturn(t) ==
    /\ pc[t] = "L54"
    /\ got' = [got EXCEPT ![t] = auth_attr]
    /\ pc' = [pc EXCEPT ![t] = "done"]
    /\ UNCHANGED <<self, auth_attr, heap, call, trace, result, prev>>

ConcNext ==
    \E t \in Threads :
        \/ AuthCall(t)
        \/ AuthCheck(t)
        \/ AuthCreate(t)
        \/ AuthTestSecret(t)
        \/ AuthAddProof(t)
        \/ AuthStore(t)
        \/ AuthReturn(t)

ConcSpec == Init /\ [][ConcNext]_vars

---------------------------------------------------------------------------
(* Reading an invocation's trace *)

RequestEvents(tr) == SelectSeq(tr, LAMBDA ev : ev.e = "request")
Requests(tr) == [i \in 1..Len(RequestEvents(tr)) |-> RequestEvents(tr)[i].req]
Decoded(tr) == \E i \in DOMAIN tr : tr[i].e = "json"

IsModern == self.num_api_version >= 140

\* the auth parameters a Bot's requests are to carry
ExpectedAuthKeys ==
    IF self.app_secret = None THEN {"access_token"}
    ELSE {"access_token", "appsecret_proof"}

ExpectedToken(nt) ==
    CASE nt = "regular"     -> Str("REGULAR")
      [] nt = "silent_push" -> Str("SILENT_PUSH")
      [] nt = "no_push"     -> Str("NO_PUSH")

---------------------------------------------------------------------------
(* C1 *)

\* C1: send_message picks the wire shape from the numeric API version alone.
\* For every version >= 14.0 it issues exactly one POST to
\* {graph_url}/{page_id}/messages with query parameters recipient,
\* messaging_type = "RESPONSE", message and the auth parameters, and no JSON
\* body; for every version < 14.0 it issues exactly one POST whose JSON body is
\* {message, recipient: {id: recipient_id}, notification_type}.
C1_SendMessageShapeByVersion ==
    call.op = "send_message" =>
        /\ Len(Requests(trace)) = 1
        /\ LET r == Requests(trace)[1]
           IN /\ r.method = "POST"
              /\ r.url = [graph_url |-> self.graph_url,
                          path |-> <<self.page_id, Str("messages")>>]
              /\ IF IsModern
                 THEN /\ r.json = Absent
                      /\ DOMAIN r.params.v =
                            {"recipient", "messaging_type", "message"} \cup ExpectedAuthKeys
                      /\ r.params.v.messaging_type = Str("RESPONSE")
                      /\ r.params.v.message = call.message
                 ELSE /\ r.json =
                            Dict([message |-> call.message,
                                  recipient |-> Dict([id |-> call.recipient_id]),
                                  notification_type |-> ExpectedToken(call.notification_type)])
                      /\ DOMAIN r.params.v = ExpectedAuthKeys

---------------------------------------------------------------------------
(* C2 *)

\* C2: for every recipient id, payload mapping and notification type, the body
\* send_recipient dispatches has recipient = {id: recipient_id}, notification_type
\* equal to the type's token, and every other key of the caller's payload with
\* its value unchanged.
C2_SendRecipientWrapsPayload ==
    call.op = "send_recipient" =>
        /\ Len(Requests(trace)) = 1
        /\ LET body == Requests(trace)[1].json
           IN /\ body.t = "dict"
              /\ {"recipient", "notification_type"} \subseteq DOMAIN body.v
              /\ body.v.recipient = Dict([id |-> call.recipient_id])
              /\ body.v.notification_type = ExpectedToken(call.notification_type)
              /\ \A k \in DOMAIN call.payload.v \ {"recipient", "notification_type"} :
                    k \in DOMAIN body.v /\ body.v[k] = call.payload.v[k]

\* a silent-push send_recipient whose payload carries a key of its own
C2_Witness ==
    /\ call.op = "send_recipient"
    /\ call.notification_type = "silent_push"
    /\ "sender_action" \in DOMAIN call.payload.v
    /\ Len(Requests(trace)) = 1
    /\ Requests(trace)[1].json.v.sender_action = Str("typing_on")

-----------------------------------------------------------------------------
(* C3 *)

\* the message a request carries: a query parameter on the modern path, a key
\* of the JSON body on the legacy path
SentMessage(r) == IF r.json = Absent THEN r.params.v.message ELSE r.json.v.message

\* C3: for every list of replies and every optional payload list (absent, empty,
\* same length, or shorter than the replies) the quick_replies array has exactly
\* one entry per reply, in order, {content_type: "text", title: reply, payload: p},
\* p being the reply's payload when one is given and not None and the reply's
\* own text otherwise.
C3_QuickRepliesOnePerReply ==
    (call.op = "send_quick_replies_message" /\ Len(Requests(trace)) = 1) =>
        LET q == call.quick_replies.v
            ps == call.list_of_payloads
            sent == SentMessage(Requests(trace)[1]).v.quick_replies
        IN /\ sent.t = "list"
           /\ Len(sent.v) = Len(q)
           /\ \A i \in 1..Len(q) :
                 sent.v[i] =
                    Dict([content_type |-> Str("text"),
                          title |-> q[i],
                          payload |-> IF ps # None /\ i <= Len(ps.v) /\ ps.v[i] # None
                                      THEN ps.v[i]
                                      ELSE q[i]])

---------------------------------------------------------------------------
(* C4 *)

ReturnsDecodedWhateverStatus ==
    {"send_raw", "send_message_api16plus", "send_attachment", "set_get_started",
     "set_persistent_menu", "remove_get_started", "remove_persistent_menu"}

\* C4: get_user_info decodes and returns the response body if and only if the
\* HTTP status is exactly 200, and returns None for every other status without
\* decoding; send_raw, send_message_api16plus, send_attachment, set_get_started,
\* set_persistent_menu, remove_get_started and remove_persistent_menu decode
\* and return the body of whatever response they get, for every status.
C4_OnlyUserInfoGatesOnStatus ==
    (call.op # "idle" /\ call.o.kind = "response" /\ Len(Requests(trace)) = 1) =>
        /\ call.op = "get_user_info" =>
              IF call.o.status_code = 200
              THEN /\ Decoded(trace)
                   /\ JsonValid(call.o.text) => result = Return(JsonLoads(call.o.text))
              ELSE /\ ~Decoded(trace)
                   /\ result = Return(None)
        /\ call.op \in ReturnsDecodedWhateverStatus =>
              /\ Decoded(trace)
              /\ JsonValid(call.o.text) => result = Return(JsonLoads(call.o.text))
              /\ ~JsonValid(call.o.text) => result = Raise("JSONDecodeError")

\* get_user_info answered 201 with a JSON body has returned None undecoded
C4_Witness ==
    /\ call.op = "get_user_info"
    /\ call.o = Response(201, BodyOk)
    /\ ~Decoded(trace)
    /\ result = Return(None)

---------------------------------------------------------------------------
(* C5 *)

\* C5: every HTTP request of every operation carries access_token equal to the
\* Bot's token; it carries appsecret_proof, equal to the proof derived from
\* (access_token, app_secret), exactly when the Bot has an app_secret, and no
\* such key otherwise; and on the modern send path recipient, messaging_type
\* and message survive the merge with the auth parameters.
C5_EveryRequestCarriesAuth ==
    \A i \in 1..Len(Requests(trace)) :
        LET r == Requests(trace)[i]
        IN /\ r.params.t = "dict"
           /\ "access_token" \in DOMAIN r.params.v
           /\ r.params.v.access_token = self.access_token
           /\ ("appsecret_proof" \in DOMAIN r.params.v) <=> (self.app_secret # None)
           /\ self.app_secret # None =>
                 r.params.v.appsecret_proof =
                    generate_appsecret_proof(self.access_token, self.app_secret)
           /\ (call.op \in {"send_message", "send_message_api16plus"}
                   /\ r.json = Absent) =>
                 /\ {"recipient", "messaging_type", "message"} \subseteq DOMAIN r.params.v
                 /\ r.params.v.recipient = DictGet(call.recipient_id, "id")
                 /\ r.params.v.messaging_type = Str("RESPONSE")
                 /\ r.params.v.message = call.message

\* a modern send by a Bot that has an app secret
C5_Witness ==
    /\ call.op = "send_message"
    /\ self.app_secret # None
    /\ IsModern
    /\ Len(Requests(trace)) = 1
    /\ DOMAIN Requests(trace)[1].params.v =
          {"recipient", "messaging_type", "message", "access_token", "appsecret_proof"}

---------------------------------------------------------------------------
(* C6 *)

AttachmentOps == {"send_attachment", "send_image", "send_audio", "send_video", "send_file"}

\* where the first event of kind e sits in a trace (0: nowhere)
FirstIndex(tr, e) ==
    IF \E i \in DOMAIN tr : tr[i].e = e
    THEN CHOOSE i \in DOMAIN tr : tr[i].e = e /\ \A j \in 1..(i - 1) : tr[j].e # e
    ELSE 0

\* C6: send_attachment and send_image / send_audio / send_video / send_file given
\* a path that cannot be opened raise a file-access error and issue no HTTP
\* request; whenever they do issue a request, the file was opened, read and
\* closed before it.
C6_UnreadableAttachmentSendsNothing ==
    call.op \in AttachmentOps =>
        /\ call.attachment_path \notin DOMAIN Files =>
              /\ result = Raise("FileNotFoundError")
              /\ Requests(trace) = <<>>
        /\ Requests(trace) # <<>> =>
              /\ FirstIndex(trace, "open") > 0
              /\ FirstIndex(trace, "open") < FirstIndex(trace, "read")
              /\ FirstIndex(trace, "read") < FirstIndex(trace, "close")
              /\ FirstIndex(trace, "close") < FirstIndex(trace, "request")

\* send_audio of a missing file has raised
C6_Witness ==
    /\ call.op = "send_audio"
    /\ call.attachment_path = PathMissing
    /\ result = Raise("FileNotFoundError")
    /\ Requests(trace) = <<>>

---------------------------------------------------------------------------
(* C7 *)

ModernScalarSend ==
    /\ call.op = "send_message"
    /\ IsModern
    /\ call.recipient_id.t = "str"

---------------------------------------------------------------------------
(* C8 *)

\* C8: every public operation issues at most one HTTP request per invocation on
\* every path, with no second request after a transport failure or an error
\* response, and a transport failure reaches the caller as the raised error.
C8_AtMostOneRequest ==
    /\ Len(Requests(trace)) <= 1
    /\ (call.op # "idle" /\ Requests(trace) # <<>> /\ call.o.kind = "ConnectionError") =>
          result = Raise("ConnectionError")

\* a legacy send whose one request met a transport failure
C8_Witness ==
    /\ call.op = "send_text_message"
    /\ ~IsModern
    /\ call.o.kind = "ConnectionError"
    /\ Len(Requests(trace)) = 1
    /\ result = Raise("ConnectionError")

---------------------------------------------------------------------------
(* C10 *)

FollowsSendMessage ==
    {"send_attachment_url", "send_text_message", "send_generic_message",
     "send_button_message", "send_quick_replies_message"}

\* C10: send_tag_message and send_action dispatch the legacy JSON body through
\* send_recipient for every API version: {message, messaging_type: "MESSAGE_TAG",
\* tag, recipient: {id}, notification_type} and {sender_action, recipient: {id},
\* notification_type}; send_attachment_url, send_text_message,
\* send_generic_message, send_button_message and send_quick_replies_message
\* follow send_message's branch: query parameters and no body from 14.0 on, the
\* JSON body below.
C10_TagAndActionAlwaysLegacy ==
    /\ call.op = "send_tag_message" =>
          /\ Len(Requests(trace)) = 1
          /\ DOMAIN Requests(trace)[1].params.v = ExpectedAuthKeys
          /\ Requests(trace)[1].json =
                Dict([message |-> call.message,
                      messaging_type |-> Str("MESSAGE_TAG"),
                      tag |-> call.tag,
                      recipient |-> Dict([id |-> call.recipient_id]),
                      notification_type |-> ExpectedToken(call.notification_type)])
    /\ call.op = "send_action" =>
          /\ Len(Requests(trace)) = 1
          /\ DOMAIN Requests(trace)[1].params.v = ExpectedAuthKeys
          /\ Requests(trace)[1].json =
                Dict([sender_action |-> call.action,
                      recipient |-> Dict([id |-> call.recipient_id]),
                      notification_type |-> ExpectedToken(call.notification_type)])
    /\ call.op \in FollowsSendMessage =>
          IF IsModern
          THEN \A i \in 1..Len(Requests(trace)) :
                  /\ Requests(trace)[i].json = Absent
                  /\ Requests(trace)[i].params.v.messaging_type = Str("RESPONSE")
                  /\ "message" \in DOMAIN Requests(trace)[i].params.v
          ELSE /\ Len(Requests(trace)) = 1
               /\ DOMAIN Requests(trace)[1].params.v = ExpectedAuthKeys
               /\ DOMAIN Requests(trace)[1].json.v =
                     {"message", "recipient", "notification_type"}
               /\ Requests(trace)[1].json.v.recipient = Dict([id |-> call.recipient_id])

\* a tag message sent by a Bot on API version 16.0 went out as a JSON body
C10_Witness ==
    /\ call.op = "send_tag_message"
    /\ self.num_api_version = 160
    /\ Len(Requests(trace)) = 1
    /\ Requests(trace)[1].json # Absent
    /\ Requests(trace)[1].json.v.messaging_type = Str("MESSAGE_TAG")

---------------------------------------------------------------------------
(* C9 *)

\* the auth-parameter set a single-threaded computation yields
ExpectedAuth ==
    IF self.app_secret = None
    THEN Dict([access_token |-> self.access_token])
    ELSE Dict([access_token |-> self.access_token,
               appsecret_proof |->
                   generate_appsecret_proof(self.access_token, self.app_secret)])

\* what callers hold and what the cache holds is the complete set
AuthObservedComplete ==
    /\ \A t \in Threads : got[t] # NoAttr => heap[got[t].id] = ExpectedAuth
    /\ auth_attr # NoAttr => heap[auth_attr.id] = ExpectedAuth
    /\ \A t \in Threads : pc[t] = "done" => got[t] # NoAttr

\* a store over a set cache stores an equal value, and a read that finds the
\* cache set goes straight to the return without building anything
AuthStepsIdempotent ==
    /\ (auth_attr # NoAttr /\ auth_attr' # auth_attr) =>
          /\ auth_attr' # NoAttr
          /\ heap'[auth_attr'.id] = heap[auth_attr.id]
    /\ \A t \in Threads :
          (auth_attr # NoAttr /\ pc[t] = "L46" /\ pc'[t] # "L46") =>
              /\ pc'[t] = "L54"
              /\ heap' = heap
              /\ auth_attr' = auth_attr

\* C9: when several callers read auth_args concurrently on one Bot whose cache
\* is not filled yet, in every interleaving each caller obtains the complete
\* set a single-threaded computation yields, nobody sees a partially built set,
\* racing first computations overwrite the cache with equal values, and once
\* the cache is set later reads return it without recomputing.
C9_ConcurrentAuthArgs == []AuthObservedComplete /\ [][AuthStepsIdempotent]_vars

\* two threads of a Bot with an app secret both built a set, both stored it and
\* both returned
C9_Witness ==
    /\ self.app_secret # None
    /\ \E t1, t2 \in Threads :
          /\ t1 # t2
          /\ heap[t1] # Unallocated /\ heap[t2] # Unallocated
          /\ pc[t1] = "done" /\ pc[t2] = "done"
          /\ got[t1] # NoAttr /\ got[t2] # NoAttr

---------------------------------------------------------------------------
(* Two send_message calls in a row on one Bot: the caller keeps what the   *)
(* first one did and calls again.                                          *)

\* the caller takes the result and keeps the finished invocation to compare
CallerKeeps ==
    /\ call # Idle
    /\ prev' = [call |-> call, trace |-> trace, result |-> result]
    /\ call' = Idle
    /\ trace' = <<>>
    /\ result' = NoResult
    /\ UNCHANGED <<self, auth_attr, heap, pc, got>>

PairNext ==
    \/ SendMessage
    \/ CallerKeeps

PairSpec == Init /\ [][PairNext]_vars

---------------------------------------------------------------------------
(* C11 *)

\* the kept call and the current one are send_message calls that differ in
\* notification_type and in nothing else
DifferOnlyInNotificationType ==
    /\ prev.call.op = "send_message"
    /\ call.op = "send_message"
    /\ prev.call.recipient_id = call.recipient_id
    /\ prev.call.message = call.message
    /\ prev.call.o = call.o
    /\ prev.call.notification_type # call.notification_type

NoNotificationType(r) ==
    /\ "notification_type" \notin DOMAIN r.params.v
    /\ r.json = Absent
    /\ r.data = Absent

\* C11: on the modern path (API version >= 14.0) notification_type has no effect:
\* two send_message calls that differ only in it issue identical requests, and
\* no request carries a notification_type parameter; on the legacy path
\* (version < 14.0) the two calls' requests differ in notification_type.
C11_NotificationTypeIgnoredOnModernPath ==
    /\ (call.op = "send_message" /\ IsModern) =>
          \A i \in 1..Len(Requests(trace)) : NoNotificationType(Requests(trace)[i])
    /\ DifferOnlyInNotificationType =>
          IF IsModern
          THEN Requests(prev.trace) = Requests(trace)
          ELSE /\ Len(Requests(prev.trace)) = 1
               /\ Len(Requests(trace)) = 1
               /\ Requests(prev.trace)[1] # Requests(trace)[1]
               /\ Requests(prev.trace)[1].json.v.notification_type =
                     ExpectedToken(prev.call.notification_type)
               /\ Requests(trace)[1].json.v.notification_type =
                     ExpectedToken(call.notification_type)
               /\ Requests(prev.trace)[1].json.v.notification_type #
                     Requests(trace)[1].json.v.notification_type

\* on API version 16.0 a regular and then a no_push send_message of the same
\* message to the same mapping recipient have each issued their one request
C11_Witness ==
    /\ DifferOnlyInNotificationType
    /\ self.num_api_version = 160
    /\ prev.call.notification_type = "regular"
    /\ call.notification_type = "no_push"
    /\ call.recipient_id.t = "dict"
    /\ Len(Requests(prev.trace)) = 1
    /\ Len(Requests(trace)) = 1
    /\ Requests(prev.trace) = Requests(trace)

====
